---- MODULE Spec2Model ----
(***************************************************************************)
(* Model of node/narwhal/src/helpers/dag.rs (the certificate DAG with its  *)
(* commit and garbage collection) and node/narwhal/src/helpers/pending.rs  *)
(* (the pending tracker, a map behind a reader-writer lock).               *)
(***************************************************************************)
EXTENDS Integers, FiniteSets, Sequences, TLC

(***************************************************************************)
(* Bounds of the model.                                                    *)
(***************************************************************************)
\* The largest value of the round type.  The code's type is u64; the model
\* keeps the same wrap-around on a narrower word: values are 0..U64Max.
U64Max == 3
\* Validators (Address<N>) are 1..NumAuthors.
NumAuthors == 2
\* Calls made on one DAG in a run.
MaxCalls == 3
\* Transmission ids (the tracker's keys) are 1..NumItems.
NumItems == 2
\* Peer addresses (SocketAddr) are 1..NumPeers.
NumPeers == 2
\* Concurrent workers, each holding a clone of the same tracker.
NumWorkers == 2

\* The rounds of the certificates that callers pass: the first rounds and the
\* largest round.
Rounds == {0, 1, 2, U64Max}
Authors == 1..NumAuthors
Items == 1..NumItems
Peers == 1..NumPeers
Workers == 1..NumWorkers
\* Two certificates exist for each (round, author) pair: enough to tell a
\* replaced certificate from its replacement.
Versions == {1, 2}
\* The values of max_gc_rounds that callers pass: no window, a window of one
\* round, and the widest window, whose sum with any round above 0 overflows.
GcRounds == {0, 1, U64Max}

(***************************************************************************)
(* BatchCertificate: an opaque value with the accessors round(), author()  *)
(* and certificate_id().  The id is derived from the content, so it        *)
(* determines the round and the author.                                    *)
(***************************************************************************)
CertificateId(r, a, v) == (r * NumAuthors + (a - 1)) * Cardinality(Versions) + v

Certificates ==
    { [round |-> r, author |-> a, certificate_id |-> CertificateId(r, a, v)] :
        r \in Rounds, a \in Authors, v \in Versions }

\* The placeholder of "no certificate" in the record of the last call.
NoCertificate == [round |-> 0, author |-> 0, certificate_id |-> 0]

\* Option<T>: None is the empty set, Some(x) the singleton.
None == {}
Some(x) == {x}

\* The empty map.
EmptyMap == [k \in {} |-> 0]

\* map.insert(k, v)
MapInsert(m, k, v) == [x \in DOMAIN m \cup {k} |-> IF x = k THEN v ELSE m[x]]

\* map.remove(k)
MapRemove(m, k) == [x \in DOMAIN m \ {k} |-> m[x]]

\* map.values()
Values(m) == { m[k] : k \in DOMAIN m }

VARIABLES
    graph,                  \* DAG.graph: round -> (author -> certificate)
    last_committed_round,   \* DAG.last_committed_round
    last_committed_authors, \* DAG.last_committed_authors: author -> round
    overflow_checks,        \* the build: "on" aborts on u64 overflow, "off" wraps
    panic,                  \* "none", or why the last call aborted
    last,                   \* the last call on the DAG, its arguments, and the
                            \* certificate that HashMap::insert replaced (and dropped)
    calls,                  \* number of calls made on the DAG
    gc_config,              \* the max_gc_rounds the configuration supplies, once set
    pending,                \* Pending.pending: item -> set of peers
    lock,                   \* the RwLock: its writer (0: none) and its readers
    pc,                     \* where each worker is in its call
    op,                     \* the call each worker makes
    ret,                    \* the value each worker's call returned
    tlast                   \* the last call of a single-threaded caller, with its result

dagVars == <<graph, last_committed_round, last_committed_authors,
             overflow_checks, panic, last, calls, gc_config>>

workerVars == <<lock, pc, op, ret>>

vars == <<graph, last_committed_round, last_committed_authors,
          overflow_checks, panic, last, calls, gc_config,
          pending, lock, pc, op, ret, tlast>>

(***************************************************************************)
(* DAG queries.                                                            *)
(***************************************************************************)
contains_certificate_in_round(g, round, certificate_id) ==
    /\ round \in DOMAIN g
    /\ \E certificate \in Values(g[round]) : certificate.certificate_id = certificate_id

get_certificate_for_round_with_author(g, round, author) ==
    IF round \in DOMAIN g /\ author \in DOMAIN g[round]
    THEN Some(g[round][author])
    ELSE None

get_certificate_for_round_with_id(g, round, certificate_id) ==
    IF round \in DOMAIN g
       /\ \E certificate \in Values(g[round]) : certificate.certificate_id = certificate_id
    THEN Some(CHOOSE certificate \in Values(g[round]) :
                  certificate.certificate_id = certificate_id)
    ELSE None

get_certificates_for_round(g, round) ==
    IF round \in DOMAIN g THEN Some(g[round]) ELSE None

(***************************************************************************)
(* DAG::insert                                                             *)
(***************************************************************************)
\* A variant of GraphInsert that files the certificate under the next round.
GraphInsertNextRound(g, certificate) ==
    LET round == (certificate.round + 1) % (U64Max + 1)
        author == certificate.author
        entry == IF round \in DOMAIN g THEN g[round] ELSE EmptyMap
    IN  MapInsert(g, round, MapInsert(entry, author, certificate))

\* A variant of GraphInsert that starts the round's map afresh.
GraphInsertFreshRound(g, certificate) ==
    MapInsert(g, certificate.round,
              MapInsert(EmptyMap, certificate.author, certificate))

\* A variant of GraphInsert that keeps the certificate already stored.
GraphInsertKeepFirst(g, certificate) ==
    LET round == certificate.round
        author == certificate.author
        entry == IF round \in DOMAIN g THEN g[round] ELSE EmptyMap
    IN  IF author \in DOMAIN entry
        THEN g
        ELSE MapInsert(g, round, MapInsert(entry, author, certificate))

\* self.graph.entry(round).or_default().insert(author, certificate)
GraphInsert(g, certificate) ==
    LET round == certificate.round
        author == certificate.author
        entry == IF round \in DOMAIN g THEN g[round] ELSE EmptyMap
    IN  MapInsert(g, round, MapInsert(entry, author, certificate))

(***************************************************************************)
(* DAG::commit                                                             *)
(***************************************************************************)
\* A variant of UpdateAuthors that overwrites the author's round whatever it was.
UpdateAuthorsOverwrite(authors, certificate) ==
    MapInsert(authors, certificate.author, certificate.round)

\* A variant of UpdateAuthors that forgets the other authors.
UpdateAuthorsReset(authors, certificate) ==
    MapInsert(EmptyMap, certificate.author,
              IF certificate.author \in DOMAIN authors
                 /\ authors[certificate.author] > certificate.round
              THEN authors[certificate.author]
              ELSE certificate.round)

\* entry(author).and_modify(raise to certificate_round).or_insert(certificate_round)
UpdateAuthors(authors, certificate) ==
    IF certificate.author \in DOMAIN authors
    THEN [authors EXCEPT ![certificate.author] =
              IF certificate.round > @ THEN certificate.round ELSE @]
    ELSE MapInsert(authors, certificate.author, certificate.round)

\* A variant of MaxValue that takes the minimum.
MinValue(authors) ==
    CHOOSE m \in Values(authors) : \A v \in Values(authors) : m <= v

\* *self.last_committed_authors.values().max().unwrap(), on a non-empty map
MaxValue(authors) ==
    CHOOSE m \in Values(authors) : \A v \in Values(authors) : m >= v

\* round + max_gc_rounds on u64 when the build does not check overflow
WrappingAdd(a, b) == (a + b) % (U64Max + 1)

\* round + max_gc_rounds does not fit the round type
Overflows(a, b) == a + b > U64Max

\* A variant of AgeKeeps that also keeps the round at the edge of the window.
AgeKeepsEdge(round, max_gc_rounds, committed_round) ==
    (round + max_gc_rounds) % (U64Max + 1) >= committed_round

\* |round, _| round + max_gc_rounds > self.last_committed_round
AgeKeeps(round, max_gc_rounds, committed_round) ==
    WrappingAdd(round, max_gc_rounds) > committed_round

\* A variant of RetainByAge that removes nothing.
RetainByAgeNone(g, max_gc_rounds, committed_round) == g

\* self.graph.retain(|round, _| round + max_gc_rounds > self.last_committed_round)
RetainByAge(g, max_gc_rounds, committed_round) ==
    [round \in { r \in DOMAIN g : AgeKeeps(r, max_gc_rounds, committed_round) } |-> g[round]]

\* The same retain in a build that checks overflow: the rounds are visited in
\* ascending order and the closure aborts at the first round whose sum
\* overflows; the rounds visited before it have been filtered, the others
\* are left as they were.
RetainByAgeAborted(g, max_gc_rounds, committed_round) ==
    LET first == CHOOSE r \in DOMAIN g :
                     /\ Overflows(r, max_gc_rounds)
                     /\ \A q \in DOMAIN g : Overflows(q, max_gc_rounds) => r <= q
    IN  [round \in { r \in DOMAIN g :
                       r >= first \/ AgeKeeps(r, max_gc_rounds, committed_round) }
            |-> g[round]]

\* A variant of RetainByAuthor that keeps a round whose map it has emptied.
RetainByAuthorKeepEmpty(g, certificate) ==
    [round \in DOMAIN g |->
        IF round > certificate.round
        THEN g[round]
        ELSE MapRemove(g[round], certificate.author)]

\* A variant of RetainByAuthor that removes nothing.
RetainByAuthorNone(g, certificate) == g

\* A variant of RetainByAuthor that spares the certificate's own round.
RetainByAuthorBelow(g, certificate) ==
    LET pruned(round) == IF round >= certificate.round
                         THEN g[round]
                         ELSE MapRemove(g[round], certificate.author)
    IN  [round \in { r \in DOMAIN g :
                       r >= certificate.round \/ DOMAIN pruned(r) # {} }
            |-> pruned(round)]

\* The second retain: rounds above certificate_round are kept as they are; in
\* the others the author's entry is removed, and the round with it when its
\* map becomes empty.
RetainByAuthor(g, certificate) ==
    LET pruned(round) == IF round > certificate.round
                         THEN g[round]
                         ELSE MapRemove(g[round], certificate.author)
    IN  [round \in { r \in DOMAIN g :
                       r > certificate.round \/ DOMAIN pruned(r) # {} }
            |-> pruned(round)]

(***************************************************************************)
(* Pending: the map behind Arc<RwLock<..>>.  The queries and the two       *)
(* mutations as functions of the map the lock guards.                      *)
(***************************************************************************)
is_empty(m) == DOMAIN m = {}

len(m) == Cardinality(DOMAIN m)

contains(m, item) == item \in DOMAIN m

contains_peer(m, item, peer_ip) ==
    IF item \in DOMAIN m THEN peer_ip \in m[item] ELSE FALSE

get(m, item) == IF item \in DOMAIN m THEN Some(m[item]) ELSE None

\* A variant of or_default that resets the entry to the empty set.
or_default_reset(m, item) == MapInsert(m, item, {})

\* .entry(item).or_default(): an absent item gets an empty peer set
or_default(m, item) == IF item \in DOMAIN m THEN m ELSE MapInsert(m, item, {})

\* A variant of insert_peer that stores the peer alone.
insert_peer_replace(m, item, peer_ip) == [m EXCEPT ![item] = {peer_ip}]

\* A variant of insert_peer that keeps a set that already has a peer.
insert_peer_first(m, item, peer_ip) ==
    [m EXCEPT ![item] = IF @ = {} THEN {peer_ip} ELSE @]

\* .insert(peer_ip) on the entry's set
insert_peer(m, item, peer_ip) == [m EXCEPT ![item] = @ \cup {peer_ip}]

\* A variant of insert that creates the entry and records no peer.
insert_entry_only(m, item, peer_ip) == or_default(m, item)

\* Pending::insert under the write lock
insert(m, item, peer_ip) == insert_peer(or_default(m, item), item, peer_ip)

\* A variant of remove that returns is_none() of the removed entry.
remove_is_none(m, item) == [map |-> MapRemove(m, item), removed |-> item \notin DOMAIN m]

\* Pending::remove under the write lock: the map and the returned flag
remove(m, item) == [map |-> MapRemove(m, item), removed |-> item \in DOMAIN m]

\* The calls a worker can make.
NoCall == [name |-> "none", item |-> 0, peer_ip |-> 0]
NoValue == "none"
Unit == "unit"

WriteCalls ==
    { [name |-> "insert", item |-> i, peer_ip |-> p] : i \in Items, p \in Peers }
    \cup { [name |-> "remove", item |-> i, peer_ip |-> 0] : i \in Items }

ReadCalls ==
    { [name |-> n, item |-> 0, peer_ip |-> 0] : n \in {"is_empty", "len"} }
    \cup { [name |-> n, item |-> i, peer_ip |-> 0] : n \in {"contains", "get"}, i \in Items }
    \cup { [name |-> "contains_peer", item |-> i, peer_ip |-> p] : i \in Items, p \in Peers }

\* What a query returns on the map it reads.
ReadResult(call, m) ==
    CASE call.name = "is_empty" -> is_empty(m)
      [] call.name = "len" -> len(m)
      [] call.name = "contains" -> contains(m, call.item)
      [] call.name = "contains_peer" -> contains_peer(m, call.item, call.peer_ip)
      [] call.name = "get" -> get(m, call.item)

Init ==
    /\ graph = EmptyMap
    /\ last_committed_round = 0
    /\ last_committed_authors = EmptyMap
    /\ overflow_checks = "unknown"
    /\ panic = "none"
    /\ last = [op |-> "new", certificate |-> NoCertificate, max_gc_rounds |-> 0,
               replaced |-> None]
    /\ calls = 0
    /\ gc_config = None
    /\ pending = EmptyMap
    /\ lock = [writer |-> 0, readers |-> {}]
    /\ pc = [w \in Workers |-> "idle"]
    /\ op = [w \in Workers |-> NoCall]
    /\ ret = [w \in Workers |-> NoValue]
    /\ tlast = [call |-> NoCall, ret |-> NoValue]

DAG_insert(certificate) ==
    /\ panic = "none"
    /\ calls < MaxCalls
    /\ graph' = GraphInsert(graph, certificate)
    /\ last' = [op |-> "insert", certificate |-> certificate, max_gc_rounds |-> 0,
                replaced |-> get_certificate_for_round_with_author(
                                 graph, certificate.round, certificate.author)]
    /\ calls' = calls + 1
    /\ UNCHANGED <<last_committed_round, last_committed_authors, overflow_checks, panic>>
    /\ UNCHANGED <<gc_config, pending, workerVars, tlast>>

\* Whether `round + max_gc_rounds` overflows for a round of the graph.  What
\* an overflow does depends on the build: with overflow checks on (the debug
\* profile) the addition panics, with them off (the release profile) it wraps.
\* The build is one or the other for the whole run; the model leaves it
\* "unknown" until the first overflow shows which it is.
DAG_commit(certificate, max_gc_rounds) ==
    LET authors == UpdateAuthors(last_committed_authors, certificate)
        overflow == \E r \in DOMAIN graph : Overflows(r, max_gc_rounds)
    IN  /\ panic = "none"
        /\ calls < MaxCalls
        /\ last_committed_authors' = authors
        /\ last' = [op |-> "commit", certificate |-> certificate,
                    max_gc_rounds |-> max_gc_rounds, replaced |-> None]
        /\ calls' = calls + 1
        /\ UNCHANGED <<gc_config, pending, workerVars, tlast>>
        /\ IF DOMAIN authors = {}
           THEN /\ panic' = "unwrap"
                /\ UNCHANGED <<last_committed_round, graph, overflow_checks>>
           ELSE /\ last_committed_round' = MaxValue(authors)
                /\ \/ /\ overflow => overflow_checks # "on"
                      /\ overflow_checks' = IF overflow THEN "off" ELSE overflow_checks
                      /\ panic' = "none"
                      /\ graph' = RetainByAuthor(
                             RetainByAge(graph, max_gc_rounds, last_committed_round'),
                             certificate)
                   \/ /\ overflow
                      /\ overflow_checks # "off"
                      /\ overflow_checks' = "on"
                      /\ panic' = "overflow"
                      /\ graph' = RetainByAgeAborted(graph, max_gc_rounds,
                                                     last_committed_round')

Next ==
    \/ \E certificate \in Certificates : DAG_insert(certificate)
    \/ \E certificate \in Certificates, max_gc_rounds \in GcRounds :
           DAG_commit(certificate, max_gc_rounds)

Spec == Init /\ [][Next]_vars

(***************************************************************************)
(* The DAG driven with one retention window: the configuration supplies    *)
(* max_gc_rounds, and every commit is called with that value.              *)
(***************************************************************************)
Configure(max_gc_rounds) ==
    /\ gc_config = None
    /\ gc_config' = Some(max_gc_rounds)
    /\ UNCHANGED <<graph, last_committed_round, last_committed_authors,
                   overflow_checks, panic, last, calls>>
    /\ UNCHANGED <<pending, workerVars, tlast>>

DAG_commit_configured(certificate) ==
    \E max_gc_rounds \in gc_config : DAG_commit(certificate, max_gc_rounds)

NextWindow ==
    \/ \E max_gc_rounds \in GcRounds : Configure(max_gc_rounds)
    \/ \E certificate \in Certificates : DAG_insert(certificate)
    \/ \E certificate \in Certificates : DAG_commit_configured(certificate)

SpecWindow == Init /\ [][NextWindow]_vars

(***************************************************************************)
(* The tracker used by one caller: each call takes the lock, acts and      *)
(* releases the lock before it returns.                                    *)
(***************************************************************************)
LockFree == lock.writer = 0 /\ lock.readers = {}

Pending_insert(item, peer_ip) ==
    /\ LockFree
    /\ pending' = insert(pending, item, peer_ip)
    /\ tlast' = [call |-> [name |-> "insert", item |-> item, peer_ip |-> peer_ip],
                 ret |-> Unit]
    /\ UNCHANGED <<dagVars, workerVars>>

Pending_remove(item) ==
    /\ LockFree
    /\ pending' = remove(pending, item).map
    /\ tlast' = [call |-> [name |-> "remove", item |-> item, peer_ip |-> 0],
                 ret |-> remove(pending, item).removed]
    /\ UNCHANGED <<dagVars, workerVars>>

Pending_read(call) ==
    /\ LockFree
    /\ tlast' = [call |-> call, ret |-> ReadResult(call, pending)]
    /\ UNCHANGED <<dagVars, workerVars, pending>>

NextPending ==
    \/ \E item \in Items, peer_ip \in Peers : Pending_insert(item, peer_ip)
    \/ \E item \in Items : Pending_remove(item)
    \/ \E call \in ReadCalls : Pending_read(call)

SpecPending == Init /\ [][NextPending]_vars

(***************************************************************************)
(* The tracker shared by concurrent workers.  Each worker makes one call:  *)
(* it takes the lock (write() or read()), acts on the map and drops the    *)
(* guard as the statement ends.                                            *)
(***************************************************************************)
\* A worker calls an operation of its handle.
Start(w, call) ==
    /\ pc[w] = "idle"
    /\ pc' = [pc EXCEPT ![w] = "start"]
    /\ op' = [op EXCEPT ![w] = call]
    /\ UNCHANGED <<dagVars, pending, lock, ret, tlast>>

\* self.pending.write(): exclusive
AcquireWrite(w) ==
    /\ pc[w] = "start"
    /\ op[w] \in WriteCalls
    /\ lock.writer = 0
    /\ lock.readers = {}
    /\ lock' = [lock EXCEPT !.writer = w]
    /\ pc' = [pc EXCEPT ![w] = "locked"]
    /\ UNCHANGED <<dagVars, pending, op, ret, tlast>>

\* A variant of read() that does not wait for the writer.
AcquireReadUnguarded(w) ==
    /\ pc[w] = "start"
    /\ op[w] \in ReadCalls
    /\ lock' = [lock EXCEPT !.readers = @ \cup {w}]
    /\ pc' = [pc EXCEPT ![w] = "locked"]
    /\ UNCHANGED <<dagVars, pending, op, ret, tlast>>

\* self.pending.read(): shared with other readers
AcquireRead(w) ==
    /\ pc[w] = "start"
    /\ op[w] \in ReadCalls
    /\ lock.writer = 0
    /\ lock' = [lock EXCEPT !.readers = @ \cup {w}]
    /\ pc' = [pc EXCEPT ![w] = "locked"]
    /\ UNCHANGED <<dagVars, pending, op, ret, tlast>>

\* insert, first half: .entry(item.into()).or_default()
InsertEntry(w) ==
    /\ pc[w] = "locked"
    /\ op[w].name = "insert"
    /\ pending' = or_default(pending, op[w].item)
    /\ pc' = [pc EXCEPT ![w] = "entry"]
    /\ UNCHANGED <<dagVars, lock, op, ret, tlast>>

\* A variant of the second half of insert that returns with the guard held.
InsertPeerHolding(w) ==
    /\ pc[w] = "entry"
    /\ pending' = insert_peer(pending, op[w].item, op[w].peer_ip)
    /\ pc' = [pc EXCEPT ![w] = "done"]
    /\ ret' = [ret EXCEPT ![w] = Unit]
    /\ UNCHANGED <<dagVars, lock, op, tlast>>

\* insert, second half: .insert(peer_ip); the guard is dropped
InsertPeer(w) ==
    /\ pc[w] = "entry"
    /\ pending' = insert_peer(pending, op[w].item, op[w].peer_ip)
    /\ lock' = [lock EXCEPT !.writer = 0]
    /\ pc' = [pc EXCEPT ![w] = "done"]
    /\ ret' = [ret EXCEPT ![w] = Unit]
    /\ UNCHANGED <<dagVars, op, tlast>>

\* remove: .remove(&item.into()).is_some(); the guard is dropped
Remove(w) ==
    /\ pc[w] = "locked"
    /\ op[w].name = "remove"
    /\ pending' = remove(pending, op[w].item).map
    /\ lock' = [lock EXCEPT !.writer = 0]
    /\ pc' = [pc EXCEPT ![w] = "done"]
    /\ ret' = [ret EXCEPT ![w] = remove(pending, op[w].item).removed]
    /\ UNCHANGED <<dagVars, op, tlast>>

\* a query: the value is computed under the read guard, which is dropped
Read(w) ==
    /\ pc[w] = "locked"
    /\ op[w] \in ReadCalls
    /\ lock' = [lock EXCEPT !.readers = @ \ {w}]
    /\ pc' = [pc EXCEPT ![w] = "done"]
    /\ ret' = [ret EXCEPT ![w] = ReadResult(op[w], pending)]
    /\ UNCHANGED <<dagVars, pending, op, tlast>>

NextConc ==
    \/ \E w \in Workers, call \in WriteCalls \cup ReadCalls : Start(w, call)
    \/ \E w \in Workers : AcquireWrite(w)
    \/ \E w \in Workers : AcquireRead(w)
    \/ \E w \in Workers : InsertEntry(w)
    \/ \E w \in Workers : InsertPeer(w)
    \/ \E w \in Workers : Remove(w)
    \/ \E w \in Workers : Read(w)

SpecConc == Init /\ [][NextConc]_vars

\* The concurrent workers under a fair lock and a scheduler that runs every
\* thread: a worker that waits for the lock gets it if it is free again and
\* again, and a worker that holds it goes on to the end of its statement.
Fairness ==
    \A w \in Workers :
        /\ SF_vars(AcquireWrite(w))
        /\ SF_vars(AcquireRead(w))
        /\ WF_vars(InsertEntry(w))
        /\ WF_vars(InsertPeer(w))
        /\ WF_vars(Remove(w))
        /\ WF_vars(Read(w))

\* One call of each kind, on the first item and peer: whether a call waits,
\* acquires and releases depends on its kind alone.
FairCalls ==
    { call \in WriteCalls \cup ReadCalls :
        call.item \in {0, 1} /\ call.peer_ip \in {0, 1} }

NextConcFair ==
    \/ \E w \in Workers, call \in FairCalls : Start(w, call)
    \/ \E w \in Workers : AcquireWrite(w)
    \/ \E w \in Workers : AcquireRead(w)
    \/ \E w \in Workers : InsertEntry(w)
    \/ \E w \in Workers : InsertPeer(w)
    \/ \E w \in Workers : Remove(w)
    \/ \E w \in Workers : Read(w)

SpecConcFair == Init /\ [][NextConcFair]_vars /\ Fairness

(***************************************************************************)
(* Callers that compose two calls: each worker runs                        *)
(*     if !pending.contains(item) { pending.insert(item, peer_ip) }        *)
(* as two calls of its handle, the lock being free between them.           *)
(***************************************************************************)
\* The worker calls contains(item).
StartCheck(w, item) ==
    Start(w, [name |-> "contains", item |-> item, peer_ip |-> 0])

\* contains has returned false: the worker calls insert for the same item.
ThenInsert(w, peer_ip) ==
    /\ pc[w] = "done"
    /\ op[w].name = "contains"
    /\ ret[w] = FALSE
    /\ pc' = [pc EXCEPT ![w] = "start"]
    /\ op' = [op EXCEPT ![w] = [name |-> "insert", item |-> op[w].item,
                                peer_ip |-> peer_ip]]
    /\ UNCHANGED <<dagVars, pending, lock, ret, tlast>>

NextCheckAct ==
    \/ \E w \in Workers, item \in Items : StartCheck(w, item)
    \/ \E w \in Workers : AcquireRead(w)
    \/ \E w \in Workers : Read(w)
    \/ \E w \in Workers, peer_ip \in Peers : ThenInsert(w, peer_ip)
    \/ \E w \in Workers : AcquireWrite(w)
    \/ \E w \in Workers : InsertEntry(w)
    \/ \E w \in Workers : InsertPeer(w)

SpecCheckAct == Init /\ [][NextCheckAct]_vars

(***************************************************************************)
(* Properties of the DAG, checked under Spec.                              *)
(***************************************************************************)
Max(a, b) == IF a >= b THEN a ELSE b

\* The round recorded for an author, 0 when none is.
RecordedRound(authors, author) ==
    IF author \in DOMAIN authors THEN authors[author] ELSE 0

\* The last call was a commit and it returned.
CommitReturned == last.op = "commit" /\ panic = "none"

C2_RoundIsMaxOfAuthors ==
    /\ panic # "unwrap"
    /\ IF DOMAIN last_committed_authors = {}
       THEN last_committed_round = 0
       ELSE /\ last_committed_round \in Values(last_committed_authors)
            /\ \A v \in Values(last_committed_authors) : v <= last_committed_round

\* Two authors are recorded at different rounds.
C2_Witness ==
    \E a, b \in DOMAIN last_committed_authors :
        last_committed_authors[a] < last_committed_authors[b]

\* C3: from one state to the next a recorded author stays recorded, its round
\* does not decrease, and last_committed_round does not decrease.
C3_CommittedStateAdvances ==
    [][/\ \A a \in DOMAIN last_committed_authors :
             /\ a \in DOMAIN last_committed_authors'
             /\ last_committed_authors'[a] >= last_committed_authors[a]
       /\ last_committed_round' >= last_committed_round
    ]_vars

\* A commit for a second author, below the last committed round, has returned.
C3_Witness ==
    /\ CommitReturned
    /\ Cardinality(DOMAIN last_committed_authors) >= 2
    /\ last_committed_authors[last.certificate.author] = last.certificate.round
    /\ last.certificate.round < last_committed_round

\* C4: when commit(c, g) has returned, every round r of the graph satisfies
\* r + g > last_committed_round.
C4_GraphInsideWindow ==
    CommitReturned =>
        \A r \in DOMAIN graph : r + last.max_gc_rounds > last_committed_round

\* A commit has returned and the window kept a round below the committed one.
C4_Witness ==
    /\ CommitReturned
    /\ \E r \in DOMAIN graph : r < last_committed_round

\* C5: when commit(c, g) has returned, the graph holds no certificate of
\* c.author at a round <= c.round: the lookup by (c.round, c.author) gives
\* none and c.certificate_id is not in round c.round.
C5_AuthorPruned ==
    CommitReturned =>
        LET c == last.certificate
        IN  /\ \A r \in DOMAIN graph : r <= c.round =>
                   /\ c.author \notin DOMAIN graph[r]
                   /\ \A stored \in Values(graph[r]) : stored.author # c.author
            /\ get_certificate_for_round_with_author(graph, c.round, c.author) = None
            /\ ~contains_certificate_in_round(graph, c.round, c.certificate_id)

\* A commit has returned, and the certificate's round is still in the graph,
\* inside the window.
C5_Witness ==
    /\ CommitReturned
    /\ last.certificate.round \in DOMAIN graph
    /\ last.certificate.round + last.max_gc_rounds > last_committed_round

\* C6: the window addition of the age pruning saturates: for a round r of the
\* graph and a max_gc_rounds whose sum with r exceeds the largest value of the
\* round type, commit does not abort and the age pruning does not remove r (r
\* leaves the graph only when the author pruning empties it).
C6_WindowAdditionSaturates ==
    [][last'.op = "commit" =>
         \A r \in DOMAIN graph :
             Overflows(r, last'.max_gc_rounds) =>
                 /\ panic' = "none"
                 /\ \/ r \in DOMAIN graph'
                    \/ /\ r <= last'.certificate.round
                       /\ DOMAIN graph[r] = {last'.certificate.author}
    ]_vars

\* C7: when insert(c) has returned, the lookups by (c.round, c.author) and by
\* (c.round, c.certificate_id) both give c and c.certificate_id is in round
\* c.round; any other certificate of the same round and author, the one just
\* replaced included, is given by neither lookup and its id is not in the
\* round.
C7_InsertStoresLastWrite ==
    last.op = "insert" =>
        LET c == last.certificate
        IN  /\ get_certificate_for_round_with_author(graph, c.round, c.author) = Some(c)
            /\ get_certificate_for_round_with_id(graph, c.round, c.certificate_id) = Some(c)
            /\ contains_certificate_in_round(graph, c.round, c.certificate_id)
            /\ \A c1 \in Certificates \cup last.replaced :
                   (c1 # c /\ c1.round = c.round /\ c1.author = c.author) =>
                       /\ get_certificate_for_round_with_author(graph, c1.round, c1.author)
                              # Some(c1)
                       /\ get_certificate_for_round_with_id(
                              graph, c1.round, c1.certificate_id) = None
                       /\ ~contains_certificate_in_round(graph, c1.round, c1.certificate_id)

\* An insert has replaced another certificate of the same round and author.
C7_Witness ==
    /\ last.op = "insert"
    /\ \E c1 \in last.replaced : c1 # last.certificate

(***************************************************************************)
(* Properties of the tracker.                                              *)
(***************************************************************************)
\* The peers recorded for an item, none when it is not tracked.
PeersOf(m, item) == IF item \in DOMAIN m THEN m[item] ELSE {}

\* Every worker has called insert(item, _), each with a peer of its own, and
\* every call has returned.
AllInserted(item) ==
    /\ \A w \in Workers :
           pc[w] = "done" /\ op[w].name = "insert" /\ op[w].item = item
    /\ \A w1, w2 \in Workers : w1 # w2 => op[w1].peer_ip # op[w2].peer_ip

\* C8 (under SpecConc): when the workers have all inserted the same item
\* concurrently, each with a distinct peer, and all calls have returned, get
\* gives exactly the set of their peers, one element per worker.
C8_NoLostInsert ==
    \A item \in Items :
        AllInserted(item) =>
            /\ get(pending, item) = Some({ op[w].peer_ip : w \in Workers })
            /\ Cardinality(PeersOf(pending, item)) = NumWorkers

\* The workers have all inserted one item, with distinct peers.
C8_Witness == \E item \in Items : AllInserted(item)

\* C9 (under SpecPending): insert(i, p) makes get(i) the union of the peers
\* recorded for i and {p}, and leaves the other items as they were; a pair
\* already present leaves the whole map unchanged; only insert(i, _) and
\* remove(i) change get(i); and on every reachable map two inserts for an item
\* give the same map in either order, and a repeated insert the same map as
\* one.
C9_InsertIsUnion ==
    [][/\ tlast'.call.name = "insert" =>
             LET i == tlast'.call.item
                 p == tlast'.call.peer_ip
             IN  /\ get(pending', i) = Some(PeersOf(pending, i) \cup {p})
                 /\ \A j \in Items \ {i} : get(pending', j) = get(pending, j)
                 /\ p \in PeersOf(pending, i) => pending' = pending
       /\ \A i \in Items :
             (tlast'.call.item # i \/ tlast'.call.name \notin {"insert", "remove"}) =>
                 get(pending', i) = get(pending, i)
       /\ \A i \in Items, p1, p2 \in Peers :
             /\ insert(insert(pending, i, p1), i, p2) = insert(insert(pending, i, p2), i, p1)
             /\ get(insert(insert(pending, i, p1), i, p2), i)
                    = Some(PeersOf(pending, i) \cup {p1, p2})
             /\ insert(insert(pending, i, p1), i, p1) = insert(pending, i, p1)
    ]_vars

\* An insert has added a peer to an item that had another one.
C9_Witness ==
    /\ tlast.call.name = "insert"
    /\ Cardinality(PeersOf(pending, tlast.call.item)) >= 2

\* C10 (under SpecPending): remove(i) returns whether i was tracked; after it
\* i is not tracked, the number of items has dropped by one when it was, and
\* the other items are as they were; an untracked item stays untracked until
\* insert(i, _), so that a remove(i) after a remove(i) returns false and
\* changes nothing.
C10_RemoveDeletesEntry ==
    [][\A i \in Items :
         /\ (tlast'.call.name = "remove" /\ tlast'.call.item = i) =>
                /\ tlast'.ret = contains(pending, i)
                /\ ~contains(pending', i)
                /\ get(pending', i) = None
                /\ len(pending') = len(pending) - (IF contains(pending, i) THEN 1 ELSE 0)
                /\ \A j \in Items \ {i} : get(pending', j) = get(pending, j)
                /\ ~contains(pending, i) => pending' = pending
                /\ (tlast.call.name = "remove" /\ tlast.call.item = i) =>
                       (tlast'.ret = FALSE /\ pending' = pending)
         /\ (~contains(pending, i)
                /\ ~(tlast'.call.name = "insert" /\ tlast'.call.item = i)) =>
                ~contains(pending', i)
    ]_vars

\* A remove has returned true and another item is still tracked.
C10_Witness ==
    /\ tlast.call.name = "remove"
    /\ tlast.ret = TRUE
    /\ ~is_empty(pending)

\* C11 (under SpecPending): the membership queries agree with get.  No item is
\* mapped to an empty peer set, so contains(i) is true exactly when get(i) is a
\* non-empty set; contains_peer(i, p) is true exactly when get(i) is a set that
\* holds p, and is false for an untracked i; and the values the calls return
\* are these.
C11_QueriesAgreeWithGet ==
    /\ \A i \in Items :
           /\ contains(pending, i) <=>
                  (get(pending, i) # None /\ \A peers \in get(pending, i) : peers # {})
           /\ contains(pending, i) <=> PeersOf(pending, i) # {}
           /\ \A p \in Peers :
                  contains_peer(pending, i, p) <=>
                      (\E peers \in get(pending, i) : p \in peers)
           /\ get(pending, i) = None =>
                  \A p \in Peers : contains_peer(pending, i, p) = FALSE
    /\ tlast.call.name = "contains" =>
           tlast.ret = (PeersOf(pending, tlast.call.item) # {})
    /\ tlast.call.name = "contains_peer" =>
           tlast.ret = (tlast.call.peer_ip \in PeersOf(pending, tlast.call.item))
    /\ tlast.call.name = "get" =>
           tlast.ret = (IF PeersOf(pending, tlast.call.item) = {}
                        THEN None
                        ELSE Some(PeersOf(pending, tlast.call.item)))

\* contains_peer has returned false for a tracked item that has another peer.
C11_Witness ==
    /\ tlast.call.name = "contains_peer"
    /\ tlast.ret = FALSE
    /\ contains(pending, tlast.call.item)

\* C12, as stated (under SpecWindow): with one max_gc_rounds g passed to every
\* commit, in every state after the first commit every round r of the graph
\* satisfies r + g > last_committed_round.
C12_SlidingWindow ==
    (DOMAIN last_committed_authors # {} /\ panic = "none") =>
        \A g \in gc_config : \A r \in DOMAIN graph : r + g > last_committed_round

\* C12, amended (under SpecWindow): every commit that returns leaves every
\* round r of the graph with r + g > last_committed_round; an insert changes
\* the window for no round but its certificate's own: a round outside the
\* window after an insert is the inserted round or was outside it before.
C12_WindowRestoredByCommit ==
    [][/\ (last'.op = "commit" /\ panic' = "none") =>
             \A r \in DOMAIN graph' :
                 r + last'.max_gc_rounds > last_committed_round'
       /\ last'.op = "commit" => last'.max_gc_rounds \in gc_config
       /\ last'.op = "insert" =>
             \A g \in gc_config : \A r \in DOMAIN graph' :
                 r + g <= last_committed_round' =>
                     \/ r = last'.certificate.round
                     \/ r \in DOMAIN graph /\ r + g <= last_committed_round
    ]_vars

\* After a commit, an insert has put a round outside the window into the graph.
C12_Witness ==
    /\ last.op = "insert"
    /\ DOMAIN last_committed_authors # {}
    /\ last.certificate.round \in DOMAIN graph
    /\ \E g \in gc_config :
           g >= 1 /\ last.certificate.round + g <= last_committed_round

\* The (round, author) pairs of the graph at or below the round recorded for
\* the author: the certificates that a commit has superseded.
Superseded(g, authors) ==
    { ra \in (DOMAIN g) \X (DOMAIN authors) :
        ra[2] \in DOMAIN g[ra[1]] /\ ra[1] <= authors[ra[2]] }

Entries(g) == { ra \in (DOMAIN g) \X Authors : ra[2] \in DOMAIN g[ra[1]] }

\* C14 (under Spec): insert(c) changes the entry (c.round, c.author) alone.
\* Every other entry holds the certificate it held, no entry and no round
\* disappears, and last_committed_round and last_committed_authors are as they
\* were; a step after which an entry or a round is gone is a commit.
C14_InsertChangesOneEntry ==
    [][/\ last'.op = "insert" =>
             LET c == last'.certificate
             IN  /\ Entries(graph') = Entries(graph) \cup {<<c.round, c.author>>}
                 /\ DOMAIN graph' = DOMAIN graph \cup {c.round}
                 /\ \A ra \in Entries(graph) :
                        ra # <<c.round, c.author>> =>
                            graph'[ra[1]][ra[2]] = graph[ra[1]][ra[2]]
                 /\ graph'[c.round][c.author] = c
                 /\ last_committed_round' = last_committed_round
                 /\ last_committed_authors' = last_committed_authors
       /\ (~(Entries(graph) \subseteq Entries(graph'))
             \/ ~(DOMAIN graph \subseteq DOMAIN graph')) => last'.op = "commit"
    ]_vars

\* An insert has returned with another entry in its round and an author
\* committed.
C14_Witness ==
    /\ last.op = "insert"
    /\ Cardinality(DOMAIN graph[last.certificate.round]) >= 2
    /\ DOMAIN last_committed_authors # {}

\* C15 (under Spec): commit(c, g) removes nothing but what its two pruning
\* rules name.  A certificate stored at round r for author b before the commit
\* is stored unchanged after it whenever r + g > last_committed_round (the
\* value after the commit) and b is not c.author or r > c.round; and the
\* commit adds and replaces no certificate.
C15_CommitRemovesOnlyNamed ==
    [][last'.op = "commit" =>
         LET c == last'.certificate
             g == last'.max_gc_rounds
         IN  /\ panic' = "none"
             /\ \A ra \in Entries(graph) :
                    (/\ ra[1] + g > last_committed_round'
                     /\ (ra[2] # c.author \/ ra[1] > c.round)) =>
                        /\ ra \in Entries(graph')
                        /\ graph'[ra[1]][ra[2]] = graph[ra[1]][ra[2]]
             /\ \A ra \in Entries(graph') :
                    /\ ra \in Entries(graph)
                    /\ graph'[ra[1]][ra[2]] = graph[ra[1]][ra[2]]
    ]_vars

\* The map as the callers of the tracker know it: the entries that insert has
\* completed.  An entry that or_default has created and that has no peer yet
\* is the first half of an insert in progress.
Completed(m) == [i \in { j \in DOMAIN m : m[j] # {} } |-> m[i]]

\* What a call returns when it runs alone on the map m, and the map it leaves.
SequentialRet(call, m) ==
    CASE call.name = "insert" -> Unit
      [] call.name = "remove" -> remove(m, call.item).removed
      [] OTHER -> ReadResult(call, m)

SequentialMap(call, m) ==
    CASE call.name = "insert" -> insert(m, call.item, call.peer_ip)
      [] call.name = "remove" -> remove(m, call.item).map
      [] OTHER -> m

\* C16 (under SpecConc): every call of the tracker takes effect at one instant
\* between its start and its return.  A step in which a call returns changes
\* the completed map as the call run alone would and returns what it would
\* return on the completed map; every other step leaves the completed map as
\* it was; a map with a half-made entry exists only while its writer holds the
\* lock exclusively, so that no query reads it.  After insert(i, p) and
\* remove(i) by two workers, with no other call on i, i is absent or get(i) is
\* exactly {p}.
C16_CallsAreAtomic ==
    [][/\ \A w \in Workers :
             IF pc[w] # "done" /\ pc'[w] = "done"
             THEN /\ Completed(pending') = SequentialMap(op[w], Completed(pending))
                  /\ ret'[w] = SequentialRet(op[w], Completed(pending))
                  /\ \A v \in Workers \ {w} : pc'[v] = pc[v] /\ ret'[v] = ret[v]
             ELSE ret'[w] = ret[w]
       /\ (\A w \in Workers : pc[w] = "done" <=> pc'[w] = "done") =>
             Completed(pending') = Completed(pending)
       /\ pending' # Completed(pending') =>
             /\ lock'.writer \in Workers
             /\ lock'.readers = {}
             /\ pc'[lock'.writer] = "entry"
       /\ \A w1, w2 \in Workers :
             (/\ pc'[w1] = "done" /\ op'[w1].name = "insert"
              /\ pc'[w2] = "done" /\ op'[w2].name = "remove"
              /\ op'[w2].item = op'[w1].item
              /\ \A v \in Workers \ {w1, w2} :
                     pc'[v] = "idle" \/ op'[v].item # op'[w1].item
                                    \/ op'[v] \in ReadCalls) =>
                 \/ get(pending', op'[w1].item) = None
                 \/ get(pending', op'[w1].item) = Some({op'[w1].peer_ip})
    ]_vars

\* An insert has made its entry and not yet added the peer, while another
\* worker has called get for the same item and waits for the lock.
C16_Witness ==
    \E w1, w2 \in Workers :
        /\ pc[w1] = "entry"
        /\ pending[op[w1].item] = {}
        /\ pc[w2] = "start"
        /\ op[w2].name = "get"
        /\ op[w2].item = op[w1].item

\* The peers of the inserts for the item that have returned.
InsertedPeers(item) ==
    { op[w].peer_ip :
        w \in { v \in Workers :
                   pc[v] = "done" /\ op[v].name = "insert" /\ op[v].item = item } }

\* C17 (under SpecCheckAct): where workers run "if not contains(i) then
\* insert(i, p)", a worker inserts only after its contains returned false, and
\* whatever the interleaving the state is well formed: the peers recorded for
\* an item are exactly the peers of the inserts that have returned, get gives
\* them, an entry without a peer exists only inside an insert that holds the
\* lock, and the lock is free when every call has returned.
C17_RaceOutcomeWellFormed ==
    /\ \A w \in Workers :
           (op[w].name = "insert" /\ pc[w] # "done") => ret[w] = FALSE
    /\ \A i \in Items :
           /\ PeersOf(pending, i) = InsertedPeers(i)
           /\ (\A w \in Workers : pc[w] # "entry") =>
                  get(pending, i) = IF InsertedPeers(i) = {}
                                    THEN None
                                    ELSE Some(InsertedPeers(i))
    /\ (\A w \in Workers : pc[w] \in {"idle", "done"}) => LockFree

\* Two workers have both seen contains(i) return false and both have inserted
\* i, each with its own peer: the set holds the two peers.
C17_Witness ==
    \E w1, w2 \in Workers, i \in Items :
        /\ w1 # w2
        /\ pc[w1] = "done" /\ op[w1].name = "insert" /\ op[w1].item = i
        /\ pc[w2] = "done" /\ op[w2].name = "insert" /\ op[w2].item = i
        /\ op[w1].peer_ip # op[w2].peer_ip
        /\ get(pending, i) = Some({op[w1].peer_ip, op[w2].peer_ip})

\* Each call takes the one lock once, in the mode of its kind, and holds it
\* only inside its statement: the holders are the workers inside a call, a
\* writer excludes every other holder, and a worker that has not yet the lock
\* or has returned holds nothing.
LockDiscipline ==
    /\ lock.writer \in Workers \cup {0}
    /\ lock.readers \subseteq Workers
    /\ lock.writer # 0 => lock.readers = {}
    /\ \A w \in Workers :
           /\ lock.writer = w <=> (pc[w] \in {"locked", "entry"} /\ op[w] \in WriteCalls)
           /\ w \in lock.readers <=> (pc[w] = "locked" /\ op[w] \in ReadCalls)
           /\ pc[w] = "entry" => op[w].name = "insert"

\* C18 (under SpecConcFair): the tracker cannot deadlock.  Every call holds
\* the lock only between its acquisition and its return, readers in read mode
\* and insert and remove in write mode, and with a fair lock every call that
\* has started returns.
C18_EveryCallReturns ==
    /\ []LockDiscipline
    /\ \A w \in Workers : (pc[w] = "start") ~> (pc[w] = "done")

\* A writer holds the lock while another writer and nobody else waits for it.
C18_Witness ==
    \E w1, w2 \in Workers :
        /\ w1 # w2
        /\ lock.writer = w1
        /\ pc[w2] = "start"
        /\ op[w2] \in WriteCalls

\* C19 (under Spec): no round of the graph has an empty author map, so
\* get_certificates_for_round gives none or a map with at least one
\* certificate; the same holds after a call that aborted.
C19_NoEmptyRound ==
    /\ \A r \in DOMAIN graph : DOMAIN graph[r] # {}
    /\ \A r \in Rounds :
           /\ get_certificates_for_round(graph, r) = None <=> r \notin DOMAIN graph
           /\ \A certificates \in get_certificates_for_round(graph, r) :
                  DOMAIN certificates # {}

\* A commit has returned after its author pruning emptied and deleted the
\* certificate's round, and another round is still in the graph.
C19_Witness ==
    /\ CommitReturned
    /\ last.certificate.round \notin DOMAIN graph
    /\ last.certificate.round + last.max_gc_rounds > last_committed_round
    /\ DOMAIN graph # {}

\* C20 (under Spec): the index agrees with the stored certificates.  The
\* certificate stored under graph[r][a] has round r and author a, and the
\* lookup by (r, a) and the lookup by (r, its certificate_id) both give it; the
\* lookup by the id of a certificate of round r and author a gives none or what
\* the lookup by (r, a) gives, it gives a certificate exactly when the one
\* stored for a has this id, and the id is reported in the round exactly then.
C20_IndexAgrees ==
    /\ \A ra \in Entries(graph) :
           LET stored == graph[ra[1]][ra[2]]
           IN  /\ stored.round = ra[1]
               /\ stored.author = ra[2]
               /\ get_certificate_for_round_with_author(graph, ra[1], ra[2]) = Some(stored)
               /\ get_certificate_for_round_with_id(graph, ra[1], stored.certificate_id)
                      = get_certificate_for_round_with_author(graph, ra[1], ra[2])
               /\ contains_certificate_in_round(graph, ra[1], stored.certificate_id)
    /\ \A r \in DOMAIN graph, a \in Authors, v \in Versions :
           LET id == CertificateId(r, a, v)
               found == get_certificate_for_round_with_id(graph, r, id)
           IN  /\ found \in {None, get_certificate_for_round_with_author(graph, r, a)}
               /\ found # None <=> (a \in DOMAIN graph[r] /\ graph[r][a].certificate_id = id)
               /\ contains_certificate_in_round(graph, r, id) <=> found # None

\* The graph has two rounds, one of them with certificates of two authors.
C20_Witness ==
    /\ Cardinality(DOMAIN graph) >= 2
    /\ \E r \in DOMAIN graph : Cardinality(DOMAIN graph[r]) >= 2

====
